---- MODULE Spec2Model ----
(***************************************************************************)
(* Octree engine of apaaris/octree: the array-backed OctreeNode            *)
(* (src/src/octree_classic.h) and the map-backed OctreeHashMapNode         *)
(* (src/src/octree_hashmap.h), built side by side over the same root box   *)
(* from the same sequence of insert calls.                                 *)
(*                                                                         *)
(* Coordinates.  A Point is a triple <<x, y, z>> of integers; one unit is  *)
(* 1/32, so the float 1.0f is 32 and the root box of main.cpp,             *)
(* [(-10,-10,-10),(10,10,10)], is [(-320,..),(320,..)].  Every midpoint    *)
(* (min + max) / 2.0f the code computes on a node of depth <= 6 is then an *)
(* integer, exactly as it is an exactly representable float in the code.   *)
(*                                                                         *)
(* Heap.  A tree is a function from node paths (the sequence of octant     *)
(* indices leading from the root to the node; the root is <<>>) to the     *)
(* node's fields min, max and points.  Slot i of node n is occupied iff    *)
(* Append(n, i) is in the domain: children[i] != nullptr in the array      *)
(* variant, children.find(i) != children.end() in the map variant.         *)
(***************************************************************************)
EXTENDS Integers, Sequences, FiniteSets, TLC

VARIABLES classicOctree, hashmapOctree, hist, result

vars == <<classicOctree, hashmapOctree, hist, result>>

(***************************************************************************)
(* Bounds and program constants                                            *)
(***************************************************************************)
\* number of insert calls a behaviour makes
MaxInserts == 3

\* recursion depth at which the call stack is taken to be exhausted: a
\* subdivide on a node this deep stands for the unbounded recursion
MaxDepth == 6

MAX_POINTS_PER_LEAF == 1

Octants == 0 .. 7

RootMin == <<-320, -320, -320>>

RootMax == <<320, 320, 320>>

\* The points handed to insert.  (1,1,1), (2,2,2), (3,3,3); (0,0,0),
\* (5,5,5), (-0.5,-0.5,-0.5); (100,100,100), outside the root box; and
\* (-10,10,0), a corner of the root box that lies on its z midplane.
Inputs ==
    { <<32, 32, 32>>, <<64, 64, 64>>, <<96, 96, 96>>,
      <<0, 0, 0>>, <<160, 160, 160>>, <<-16, -16, -16>>,
      <<3200, 3200, 3200>>,
      <<-320, 320, 0>> }

(***************************************************************************)
(* Sequences and multisets                                                 *)
(***************************************************************************)
Range(s) == { s[i] : i \in DOMAIN s }

\* the multiset of the elements of a sequence
BagOf(s) == [ x \in Range(s) |-> Cardinality({ i \in DOMAIN s : s[i] = x }) ]

RECURSIVE SelectSeqBy(_, _)
SelectSeqBy(s, keep) ==
    IF s = <<>> THEN <<>>
    ELSE IF Head(s) \in keep THEN <<Head(s)>> \o SelectSeqBy(Tail(s), keep)
         ELSE SelectSeqBy(Tail(s), keep)

Bit(octant, b) == (octant \div b) % 2 = 1

NewNode(bounds) == [min |-> bounds.min, max |-> bounds.max, points |-> <<>>]

ChildSlots(nodes, n) == { i \in Octants : Append(n, i) \in DOMAIN nodes }

EmptyTree(lo, hi) ==
    [ nodes |-> (<<>> :> NewNode([min |-> lo, max |-> hi])),
      overflow |-> FALSE,
      subdivisions |-> 0,
      warnings |-> <<>> ]

(***************************************************************************)
(* OctreeNode: the array-backed variant                                    *)
(***************************************************************************)
\* contains that tests only the lower faces of the box
OctreeNode_contains_lowerOnly(node, p) ==
    p[1] >= node.min[1] /\ p[2] >= node.min[2] /\ p[3] >= node.min[3]

OctreeNode_contains(node, p) ==
    /\ p[1] >= node.min[1] /\ p[1] <= node.max[1]
    /\ p[2] >= node.min[2] /\ p[2] <= node.max[2]
    /\ p[3] >= node.min[3] /\ p[3] <= node.max[3]

OctreeNode_center(node) ==
    << (node.min[1] + node.max[1]) \div 2,
       (node.min[2] + node.max[2]) \div 2,
       (node.min[3] + node.max[3]) \div 2 >>

\* calculateChildBounds that ignores the x bit of the octant
OctreeNode_calculateChildBounds_noXBit(node, octant) ==
    LET center == OctreeNode_center(node)
    IN [ min |-> << node.min[1],
                    IF Bit(octant, 2) THEN center[2] ELSE node.min[2],
                    IF Bit(octant, 4) THEN center[3] ELSE node.min[3] >>,
         max |-> << center[1],
                    IF Bit(octant, 2) THEN node.max[2] ELSE center[2],
                    IF Bit(octant, 4) THEN node.max[3] ELSE center[3] >> ]

OctreeNode_calculateChildBounds(node, octant) ==
    LET center == OctreeNode_center(node)
    IN [ min |-> << IF Bit(octant, 1) THEN center[1] ELSE node.min[1],
                    IF Bit(octant, 2) THEN center[2] ELSE node.min[2],
                    IF Bit(octant, 4) THEN center[3] ELSE node.min[3] >>,
         max |-> << IF Bit(octant, 1) THEN node.max[1] ELSE center[1],
                    IF Bit(octant, 2) THEN node.max[2] ELSE center[2],
                    IF Bit(octant, 4) THEN node.max[3] ELSE center[3] >> ]

OctreeNode_isLeaf(nodes, n) == Append(n, 0) \notin DOMAIN nodes

OctreeNode_getOctant(node, p) ==
    LET center == OctreeNode_center(node)
    IN (IF p[1] > center[1] THEN 1 ELSE 0)
       + (IF p[2] > center[2] THEN 2 ELSE 0)
       + (IF p[3] > center[3] THEN 4 ELSE 0)

RECURSIVE OctreeNode_insert(_, _, _)
RECURSIVE OctreeNode_subdivide(_, _)
RECURSIVE OctreeNode_subdivideMove(_, _, _, _)

\* insert that subdivides a leaf only when its buffer exceeds 2 points
OctreeNode_insert_threshold2(h, n, p) ==
    CASE ~OctreeNode_contains(h.nodes[n], p) ->
            [h EXCEPT !.warnings = Append(@, [node |-> n, p |-> p])]
      [] OctreeNode_contains(h.nodes[n], p) /\ OctreeNode_isLeaf(h.nodes, n)
            /\ Len(h.nodes[n].points) + 1 > 2 ->
            OctreeNode_subdivide([h EXCEPT !.nodes[n].points = Append(@, p)], n)
      [] OctreeNode_contains(h.nodes[n], p) /\ OctreeNode_isLeaf(h.nodes, n)
            /\ ~(Len(h.nodes[n].points) + 1 > 2) ->
            [h EXCEPT !.nodes[n].points = Append(@, p)]
      [] OTHER ->
            OctreeNode_insert(
                IF Append(n, OctreeNode_getOctant(h.nodes[n], p)) \notin DOMAIN h.nodes
                THEN [h EXCEPT !.nodes =
                         (Append(n, OctreeNode_getOctant(h.nodes[n], p)) :>
                             NewNode(OctreeNode_calculateChildBounds(h.nodes[n],
                                         OctreeNode_getOctant(h.nodes[n], p)))) @@ @]
                ELSE h,
                Append(n, OctreeNode_getOctant(h.nodes[n], p)), p)

\* insert(p) called on node n of heap h
OctreeNode_insert(h, n, p) ==
    CASE ~OctreeNode_contains(h.nodes[n], p) ->
            [h EXCEPT !.warnings = Append(@, [node |-> n, p |-> p])]
      [] OctreeNode_contains(h.nodes[n], p) /\ OctreeNode_isLeaf(h.nodes, n)
            /\ Len(h.nodes[n].points) + 1 > 1 ->
            OctreeNode_subdivide([h EXCEPT !.nodes[n].points = Append(@, p)], n)
      [] OctreeNode_contains(h.nodes[n], p) /\ OctreeNode_isLeaf(h.nodes, n)
            /\ ~(Len(h.nodes[n].points) + 1 > 1) ->
            [h EXCEPT !.nodes[n].points = Append(@, p)]
      [] OTHER ->
            OctreeNode_insert(
                IF Append(n, OctreeNode_getOctant(h.nodes[n], p)) \notin DOMAIN h.nodes
                THEN [h EXCEPT !.nodes =
                         (Append(n, OctreeNode_getOctant(h.nodes[n], p)) :>
                             NewNode(OctreeNode_calculateChildBounds(h.nodes[n],
                                         OctreeNode_getOctant(h.nodes[n], p)))) @@ @]
                ELSE h,
                Append(n, OctreeNode_getOctant(h.nodes[n], p)), p)

\* the heap after the loop of subdivide has moved points[1..k] of node n to
\* its children (the loop does not change node n itself); a stack overflow
\* ends the process
OctreeNode_subdivideMove(h, n, points, k) ==
    IF k = 0 THEN h
    ELSE LET moved == OctreeNode_subdivideMove(h, n, points, k - 1)
         IN IF moved.overflow THEN moved
            ELSE OctreeNode_insert(moved,
                     Append(n, OctreeNode_getOctant(h.nodes[n], points[k])), points[k])

\* subdivide that forgets points.clear()
OctreeNode_subdivide_noClear(h, n) ==
    IF Len(n) >= MaxDepth THEN [h EXCEPT !.overflow = TRUE]
    ELSE OctreeNode_subdivideMove(
             [h EXCEPT !.nodes = [ c \in { Append(n, i) : i \in Octants } |->
                                     NewNode(OctreeNode_calculateChildBounds(h.nodes[n], c[Len(c)])) ]
                                 @@ @,
                       !.subdivisions = @ + 1],
             n, h.nodes[n].points, Len(h.nodes[n].points))

\* subdivide that allocates only the slots that receive a buffered point
OctreeNode_subdivide_sparse(h, n) ==
    IF Len(n) >= MaxDepth THEN [h EXCEPT !.overflow = TRUE]
    ELSE [ OctreeNode_subdivideMove(
             [h EXCEPT !.nodes = [ c \in { Append(n, OctreeNode_getOctant(h.nodes[n], q)) :
                                            q \in Range(h.nodes[n].points) } |->
                                     NewNode(OctreeNode_calculateChildBounds(h.nodes[n], c[Len(c)])) ]
                                 @@ @,
                       !.subdivisions = @ + 1],
             n, h.nodes[n].points, Len(h.nodes[n].points))
           EXCEPT !.nodes[n].points = <<>> ]

\* subdivide() called on node n: allocate the 8 children, move the buffer,
\* clear it.  A node at depth MaxDepth stands for the exhausted call stack.
OctreeNode_subdivide(h, n) ==
    IF Len(n) >= MaxDepth THEN [h EXCEPT !.overflow = TRUE]
    ELSE [ OctreeNode_subdivideMove(
             [h EXCEPT !.nodes = [ c \in { Append(n, i) : i \in Octants } |->
                                     NewNode(OctreeNode_calculateChildBounds(h.nodes[n], c[Len(c)])) ]
                                 @@ @,
                       !.subdivisions = @ + 1],
             n, h.nodes[n].points, Len(h.nodes[n].points))
           EXCEPT !.nodes[n].points = <<>> ]

(***************************************************************************)
(* OctreeHashMapNode: the map-backed variant                               *)
(***************************************************************************)
OctreeHashMapNode_contains(node, p) ==
    /\ p[1] >= node.min[1] /\ p[1] <= node.max[1]
    /\ p[2] >= node.min[2] /\ p[2] <= node.max[2]
    /\ p[3] >= node.min[3] /\ p[3] <= node.max[3]

OctreeHashMapNode_center(node) ==
    << (node.min[1] + node.max[1]) \div 2,
       (node.min[2] + node.max[2]) \div 2,
       (node.min[3] + node.max[3]) \div 2 >>

\* calculateChildBounds that tests bit 4 for x and bit 1 for z
OctreeHashMapNode_calculateChildBounds_swappedBits(node, octant) ==
    LET center == OctreeHashMapNode_center(node)
    IN [ min |-> << IF Bit(octant, 4) THEN center[1] ELSE node.min[1],
                    IF Bit(octant, 2) THEN center[2] ELSE node.min[2],
                    IF Bit(octant, 1) THEN center[3] ELSE node.min[3] >>,
         max |-> << IF Bit(octant, 4) THEN node.max[1] ELSE center[1],
                    IF Bit(octant, 2) THEN node.max[2] ELSE center[2],
                    IF Bit(octant, 1) THEN node.max[3] ELSE center[3] >> ]

OctreeHashMapNode_calculateChildBounds(node, octant) ==
    LET center == OctreeHashMapNode_center(node)
    IN [ min |-> << IF Bit(octant, 1) THEN center[1] ELSE node.min[1],
                    IF Bit(octant, 2) THEN center[2] ELSE node.min[2],
                    IF Bit(octant, 4) THEN center[3] ELSE node.min[3] >>,
         max |-> << IF Bit(octant, 1) THEN node.max[1] ELSE center[1],
                    IF Bit(octant, 2) THEN node.max[2] ELSE center[2],
                    IF Bit(octant, 4) THEN node.max[3] ELSE center[3] >> ]

OctreeHashMapNode_isLeaf(nodes, n) == ChildSlots(nodes, n) = {}
\* getOctant that sends a point on the x midplane to the upper half
OctreeHashMapNode_getOctant_upperTie(node, p) ==
    LET center == OctreeHashMapNode_center(node)
    IN (IF p[1] >= center[1] THEN 1 ELSE 0)
       + (IF p[2] > center[2] THEN 2 ELSE 0)
       + (IF p[3] > center[3] THEN 4 ELSE 0)

OctreeHashMapNode_getOctant(node, p) ==
    LET center == OctreeHashMapNode_center(node)
    IN (IF p[1] > center[1] THEN 1 ELSE 0)
       + (IF p[2] > center[2] THEN 2 ELSE 0)
       + (IF p[3] > center[3] THEN 4 ELSE 0)

RECURSIVE OctreeHashMapNode_insert(_, _, _)
RECURSIVE OctreeHashMapNode_subdivide(_, _)
RECURSIVE OctreeHashMapNode_subdivideList(_, _, _, _)
RECURSIVE OctreeHashMapNode_subdivideCreate(_, _, _, _)

\* insert that allocates the child of an internal node without looking
\* whether the octant is occupied: the assignment to children[octant]
\* releases the subtree that was there
OctreeHashMapNode_insert_alwaysCreate(h, n, p) ==
    CASE ~OctreeHashMapNode_contains(h.nodes[n], p) ->
            [h EXCEPT !.warnings = Append(@, [node |-> n, p |-> p])]
      [] OctreeHashMapNode_contains(h.nodes[n], p) /\ OctreeHashMapNode_isLeaf(h.nodes, n)
            /\ Len(h.nodes[n].points) + 1 > MAX_POINTS_PER_LEAF ->
            OctreeHashMapNode_subdivide([h EXCEPT !.nodes[n].points = Append(@, p)], n)
      [] OctreeHashMapNode_contains(h.nodes[n], p) /\ OctreeHashMapNode_isLeaf(h.nodes, n)
            /\ ~(Len(h.nodes[n].points) + 1 > MAX_POINTS_PER_LEAF) ->
            [h EXCEPT !.nodes[n].points = Append(@, p)]
      [] OTHER ->
            LET c == Append(n, OctreeHashMapNode_getOctant(h.nodes[n], p))
                kept == { m \in DOMAIN h.nodes :
                            ~(Len(m) >= Len(c) /\ SubSeq(m, 1, Len(c)) = c) }
            IN OctreeHashMapNode_insert(
                   [h EXCEPT !.nodes =
                        (c :> NewNode(OctreeHashMapNode_calculateChildBounds(h.nodes[n], c[Len(c)])))
                        @@ [ m \in kept |-> h.nodes[m] ]],
                   c, p)

\* insert(p) called on node n of heap h
OctreeHashMapNode_insert(h, n, p) ==
    CASE ~OctreeHashMapNode_contains(h.nodes[n], p) ->
            [h EXCEPT !.warnings = Append(@, [node |-> n, p |-> p])]
      [] OctreeHashMapNode_contains(h.nodes[n], p) /\ OctreeHashMapNode_isLeaf(h.nodes, n)
            /\ Len(h.nodes[n].points) + 1 > MAX_POINTS_PER_LEAF ->
            OctreeHashMapNode_subdivide([h EXCEPT !.nodes[n].points = Append(@, p)], n)
      [] OctreeHashMapNode_contains(h.nodes[n], p) /\ OctreeHashMapNode_isLeaf(h.nodes, n)
            /\ ~(Len(h.nodes[n].points) + 1 > MAX_POINTS_PER_LEAF) ->
            [h EXCEPT !.nodes[n].points = Append(@, p)]
      [] OTHER ->
            OctreeHashMapNode_insert(
                IF Append(n, OctreeHashMapNode_getOctant(h.nodes[n], p)) \notin DOMAIN h.nodes
                THEN [h EXCEPT !.nodes =
                         (Append(n, OctreeHashMapNode_getOctant(h.nodes[n], p)) :>
                             NewNode(OctreeHashMapNode_calculateChildBounds(h.nodes[n],
                                         OctreeHashMapNode_getOctant(h.nodes[n], p)))) @@ @]
                ELSE h,
                Append(n, OctreeHashMapNode_getOctant(h.nodes[n], p)), p)

\* the heap after the inner loop of subdivide has inserted
\* octantPointList[1..j] into child c
OctreeHashMapNode_subdivideList(h, c, octantPointList, j) ==
    IF j = 0 THEN h
    ELSE LET done == OctreeHashMapNode_subdivideList(h, c, octantPointList, j - 1)
         IN IF done.overflow THEN done
            ELSE OctreeHashMapNode_insert(done, c, octantPointList[j])

\* the keys of octantPoints: the octants of the buffered points, each once,
\* in the order of their first point
RECURSIVE OctantKeys(_, _)
OctantKeys(node, points) ==
    IF points = <<>> THEN <<>>
    ELSE LET rest == OctantKeys(node, SubSeq(points, 1, Len(points) - 1))
             octant == OctreeHashMapNode_getOctant(node, points[Len(points)])
         IN IF octant \in Range(rest) THEN rest ELSE Append(rest, octant)

\* the heap after the outer loop of subdivide has visited the entries
\* keys[1..k] of octantPoints.  The container's iteration order is
\* unspecified; the children are disjoint subtrees, so every order of the
\* entries builds the same tree.
OctreeHashMapNode_subdivideCreate(h, n, keys, k) ==
    IF k = 0 THEN h
    ELSE LET done == OctreeHashMapNode_subdivideCreate(h, n, keys, k - 1)
             octantPointList ==
                 SelectSeqBy(h.nodes[n].points,
                     { q \in Range(h.nodes[n].points) :
                         OctreeHashMapNode_getOctant(h.nodes[n], q) = keys[k] })
         IN IF done.overflow THEN done
            ELSE OctreeHashMapNode_subdivideList(
                     [done EXCEPT !.nodes =
                        (Append(n, keys[k]) :>
                            NewNode(OctreeHashMapNode_calculateChildBounds(h.nodes[n], keys[k]))) @@ @],
                     Append(n, keys[k]), octantPointList, Len(octantPointList))

\* subdivide that forgets points.clear()
OctreeHashMapNode_subdivide_noClear(h, n) ==
    IF Len(n) >= MaxDepth THEN [h EXCEPT !.overflow = TRUE]
    ELSE OctreeHashMapNode_subdivideCreate(
             [h EXCEPT !.subdivisions = @ + 1], n,
             OctantKeys(h.nodes[n], h.nodes[n].points),
             Len(OctantKeys(h.nodes[n], h.nodes[n].points)))

\* subdivide that creates a child for each of the 8 octants, as the array
\* variant does
OctreeHashMapNode_subdivide_allOctants(h, n) ==
    IF Len(n) >= MaxDepth THEN [h EXCEPT !.overflow = TRUE]
    ELSE [ OctreeHashMapNode_subdivideCreate(
               [h EXCEPT !.nodes = [ c \in { Append(n, i) : i \in Octants } |->
                                       NewNode(OctreeHashMapNode_calculateChildBounds(
                                                   h.nodes[n], c[Len(c)])) ] @@ @,
                         !.subdivisions = @ + 1], n,
               OctantKeys(h.nodes[n], h.nodes[n].points),
               Len(OctantKeys(h.nodes[n], h.nodes[n].points)))
           EXCEPT !.nodes[n].points = <<>> ]

\* subdivide() called on node n: group the buffer by octant, create the
\* children that receive a point, insert, clear the buffer.  A node at depth
\* MaxDepth stands for the exhausted call stack.
OctreeHashMapNode_subdivide(h, n) ==
    IF Len(n) >= MaxDepth THEN [h EXCEPT !.overflow = TRUE]
    ELSE [ OctreeHashMapNode_subdivideCreate(
               [h EXCEPT !.subdivisions = @ + 1], n,
               OctantKeys(h.nodes[n], h.nodes[n].points),
               Len(OctantKeys(h.nodes[n], h.nodes[n].points)))
           EXCEPT !.nodes[n].points = <<>> ]

(***************************************************************************)
(* Traversals.  The code threads an output parameter (allPoints, result,   *)
(* the four counters) through the recursion; here a call returns what it   *)
(* appends or adds to that parameter, and the caller concatenates or       *)
(* merges in the order the code makes the calls.  getStatistics is the     *)
(* call made on zeroed counters, as printStatistics makes it.              *)
(***************************************************************************)
InBox(p, queryMin, queryMax) ==
    /\ p[1] >= queryMin[1] /\ p[1] <= queryMax[1]
    /\ p[2] >= queryMin[2] /\ p[2] <= queryMax[2]
    /\ p[3] >= queryMin[3] /\ p[3] <= queryMax[3]

RECURSIVE FilterBox(_, _, _)
\* the scan "for p in points: if p is inside the query box, push_back(p)"
FilterBox(points, queryMin, queryMax) ==
    IF points = <<>> THEN <<>>
    ELSE IF InBox(Head(points), queryMin, queryMax)
         THEN <<Head(points)>> \o FilterBox(Tail(points), queryMin, queryMax)
         ELSE FilterBox(Tail(points), queryMin, queryMax)

Max2(a, b) == IF a > b THEN a ELSE b

ZeroStatistics == [totalNodes |-> 0, leafNodes |-> 0, totalPoints |-> 0, maxDepth |-> 0]

MaxOf(S) == CHOOSE m \in S : \A x \in S : x <= m

\* a merge whose loop stops one call early
MergeStatistics_skipLast(own, c0, c1, c2, c3, c4, c5, c6, c7) ==
    [ totalNodes |->
          (own.totalNodes + ((c0.totalNodes + c1.totalNodes) + (c2.totalNodes + c3.totalNodes)))
          + ((c4.totalNodes + c5.totalNodes) + c6.totalNodes),
      leafNodes |->
          (own.leafNodes + ((c0.leafNodes + c1.leafNodes) + (c2.leafNodes + c3.leafNodes)))
          + ((c4.leafNodes + c5.leafNodes) + c6.leafNodes),
      totalPoints |->
          (own.totalPoints + ((c0.totalPoints + c1.totalPoints) + (c2.totalPoints + c3.totalPoints)))
          + ((c4.totalPoints + c5.totalPoints) + c6.totalPoints),
      maxDepth |->
          MaxOf({ own.maxDepth, c0.maxDepth, c1.maxDepth, c2.maxDepth, c3.maxDepth,
                  c4.maxDepth, c5.maxDepth, c6.maxDepth }) ]

\* the counters after the eight calls c[0..7] have been made, one after the
\* other, on counters holding own: the sums, and the largest depth
MergeStatistics(own, c0, c1, c2, c3, c4, c5, c6, c7) ==
    [ totalNodes |->
          (own.totalNodes + ((c0.totalNodes + c1.totalNodes) + (c2.totalNodes + c3.totalNodes)))
          + ((c4.totalNodes + c5.totalNodes) + (c6.totalNodes + c7.totalNodes)),
      leafNodes |->
          (own.leafNodes + ((c0.leafNodes + c1.leafNodes) + (c2.leafNodes + c3.leafNodes)))
          + ((c4.leafNodes + c5.leafNodes) + (c6.leafNodes + c7.leafNodes)),
      totalPoints |->
          (own.totalPoints + ((c0.totalPoints + c1.totalPoints) + (c2.totalPoints + c3.totalPoints)))
          + ((c4.totalPoints + c5.totalPoints) + (c6.totalPoints + c7.totalPoints)),
      maxDepth |->
          MaxOf({ own.maxDepth, c0.maxDepth, c1.maxDepth, c2.maxDepth, c3.maxDepth,
                  c4.maxDepth, c5.maxDepth, c6.maxDepth, c7.maxDepth }) ]

(***************************************************************************)
(* Traversals of the array-backed variant.  The loop                       *)
(* "for i in 0..7: if children[i] != nullptr: children[i]->f(..)" is       *)
(* written out slot by slot, in the order the loop takes them.             *)
(***************************************************************************)
RECURSIVE OctreeNode_collectAllPoints(_, _)

OctreeNode_collectAllPoints(nodes, n) ==
    LET child(i) == IF Append(n, i) \in DOMAIN nodes
                    THEN OctreeNode_collectAllPoints(nodes, Append(n, i))
                    ELSE <<>>
    IN nodes[n].points
       \o (IF ~OctreeNode_isLeaf(nodes, n)
           THEN ((child(0) \o child(1)) \o (child(2) \o child(3)))
                \o ((child(4) \o child(5)) \o (child(6) \o child(7)))
           ELSE <<>>)

OctreeNode_rangeQuery(nodes, queryMin, queryMax) ==
    FilterBox(OctreeNode_collectAllPoints(nodes, <<>>), queryMin, queryMax)

RECURSIVE OctreeNode_collectAllPointsReads(_, _)

\* the nodes whose buffer the walk of collectAllPoints started at n reads
OctreeNode_collectAllPointsReads(nodes, n) ==
    LET child(i) == IF Append(n, i) \in DOMAIN nodes
                    THEN OctreeNode_collectAllPointsReads(nodes, Append(n, i))
                    ELSE {}
    IN {n}
       \cup (IF ~OctreeNode_isLeaf(nodes, n)
             THEN ((child(0) \cup child(1)) \cup (child(2) \cup child(3)))
                  \cup ((child(4) \cup child(5)) \cup (child(6) \cup child(7)))
             ELSE {})

\* the nodes whose buffer a call of rangeQuery scans: all that
\* collectAllPoints copies into allPoints, which the filter loop then tests
OctreeNode_rangeQueryScans(nodes, queryMin, queryMax) ==
    OctreeNode_collectAllPointsReads(nodes, <<>>)

RECURSIVE OctreeNode_collectNodeBoxes(_, _, _)

\* collectNodeBoxes that hands currentLevel, not currentLevel + 1, down
OctreeNode_collectNodeBoxes_sameLevel(nodes, n, currentLevel) ==
    LET child(i) == IF Append(n, i) \in DOMAIN nodes
                    THEN OctreeNode_collectNodeBoxes(nodes, Append(n, i), currentLevel)
                    ELSE <<>>
    IN << [min |-> nodes[n].min, max |-> nodes[n].max, level |-> currentLevel] >>
       \o (IF ~OctreeNode_isLeaf(nodes, n)
           THEN ((child(0) \o child(1)) \o (child(2) \o child(3)))
                \o ((child(4) \o child(5)) \o (child(6) \o child(7)))
           ELSE <<>>)

\* the entries collectNodeBoxes appends to boxes and levels, kept in step:
\* entry k is (boxes[k].first, boxes[k].second, levels[k])
OctreeNode_collectNodeBoxes(nodes, n, currentLevel) ==
    LET child(i) == IF Append(n, i) \in DOMAIN nodes
                    THEN OctreeNode_collectNodeBoxes(nodes, Append(n, i), currentLevel + 1)
                    ELSE <<>>
    IN << [min |-> nodes[n].min, max |-> nodes[n].max, level |-> currentLevel] >>
       \o (IF ~OctreeNode_isLeaf(nodes, n)
           THEN ((child(0) \o child(1)) \o (child(2) \o child(3)))
                \o ((child(4) \o child(5)) \o (child(6) \o child(7)))
           ELSE <<>>)

RECURSIVE OctreeNode_getStatistics(_, _, _)

OctreeNode_getStatistics(nodes, n, currentDepth) ==
    LET own == [ totalNodes |-> 1,
                 leafNodes |-> IF OctreeNode_isLeaf(nodes, n) THEN 1 ELSE 0,
                 totalPoints |-> Len(nodes[n].points),
                 maxDepth |-> Max2(0, currentDepth) ]
        child(i) == IF Append(n, i) \in DOMAIN nodes
                    THEN OctreeNode_getStatistics(nodes, Append(n, i), currentDepth + 1)
                    ELSE ZeroStatistics
        c0 == child(0)
        c1 == child(1)
        c2 == child(2)
        c3 == child(3)
        c4 == child(4)
        c5 == child(5)
        c6 == child(6)
        c7 == child(7)
    IN IF OctreeNode_isLeaf(nodes, n)
       THEN own
       ELSE MergeStatistics(own, c0, c1, c2, c3, c4, c5, c6, c7)

(***************************************************************************)
(* Traversals of the map-backed variant.  They iterate the unordered_map   *)
(* children; its iteration order is unspecified, so a traversal takes the  *)
(* order of every node's container as an input: order[n] is a sequence     *)
(* listing the keys of node n, each once.                                  *)
(***************************************************************************)
KeyOrders(S) ==
    { s \in [1 .. Cardinality(S) -> S] : \A i, j \in DOMAIN s : s[i] = s[j] => i = j }

RECURSIVE IterationOrdersOf(_, _)
IterationOrdersOf(nodes, todo) ==
    IF todo = {} THEN { <<>> }
    ELSE LET n == CHOOSE m \in todo : TRUE
         IN { (n :> s) @@ f : s \in KeyOrders(ChildSlots(nodes, n)),
                              f \in IterationOrdersOf(nodes, todo \ {n}) }

\* the iteration orders the children containers of a tree may have
IterationOrders(nodes) == IterationOrdersOf(nodes, DOMAIN nodes)

RECURSIVE OctreeHashMapNode_collectAllPoints(_, _, _)

\* the loop "for [octant, child] in children" visits the entries in the
\* container's order; a container holds at most 8 entries
OctreeHashMapNode_collectAllPoints(nodes, order, n) ==
    LET child(k) == IF k <= Len(order[n])
                    THEN OctreeHashMapNode_collectAllPoints(nodes, order, Append(n, order[n][k]))
                    ELSE <<>>
    IN nodes[n].points
       \o (((child(1) \o child(2)) \o (child(3) \o child(4)))
           \o ((child(5) \o child(6)) \o (child(7) \o child(8))))

\* boxIntersects with a half-open comparison on the upper faces
OctreeHashMapNode_boxIntersects_halfOpen(node, queryMin, queryMax) ==
    ~ \/ node.max[1] <= queryMin[1] \/ node.min[1] > queryMax[1]
      \/ node.max[2] <= queryMin[2] \/ node.min[2] > queryMax[2]
      \/ node.max[3] <= queryMin[3] \/ node.min[3] > queryMax[3]

OctreeHashMapNode_boxIntersects(node, queryMin, queryMax) ==
    ~ \/ node.max[1] < queryMin[1] \/ node.min[1] > queryMax[1]
      \/ node.max[2] < queryMin[2] \/ node.min[2] > queryMax[2]
      \/ node.max[3] < queryMin[3] \/ node.min[3] > queryMax[3]

RECURSIVE OctreeHashMapNode_rangeQueryRecursive(_, _, _, _, _)

OctreeHashMapNode_rangeQueryRecursive(nodes, order, n, queryMin, queryMax) ==
    LET child(k) == IF k <= Len(order[n])
                    THEN OctreeHashMapNode_rangeQueryRecursive(nodes, order,
                             Append(n, order[n][k]), queryMin, queryMax)
                    ELSE <<>>
    IN IF ~OctreeHashMapNode_boxIntersects(nodes[n], queryMin, queryMax) THEN <<>>
       ELSE FilterBox(nodes[n].points, queryMin, queryMax)
            \o (((child(1) \o child(2)) \o (child(3) \o child(4)))
                \o ((child(5) \o child(6)) \o (child(7) \o child(8))))

OctreeHashMapNode_rangeQuery(nodes, order, queryMin, queryMax) ==
    OctreeHashMapNode_rangeQueryRecursive(nodes, order, <<>>, queryMin, queryMax)

RECURSIVE OctreeHashMapNode_rangeQueryRecursiveScans(_, _, _, _, _)

\* the nodes whose buffer the call of rangeQueryRecursive on n scans
OctreeHashMapNode_rangeQueryRecursiveScans(nodes, order, n, queryMin, queryMax) ==
    LET child(k) == IF k <= Len(order[n])
                    THEN OctreeHashMapNode_rangeQueryRecursiveScans(nodes, order,
                             Append(n, order[n][k]), queryMin, queryMax)
                    ELSE {}
    IN IF ~OctreeHashMapNode_boxIntersects(nodes[n], queryMin, queryMax) THEN {}
       ELSE {n}
            \cup (((child(1) \cup child(2)) \cup (child(3) \cup child(4)))
                  \cup ((child(5) \cup child(6)) \cup (child(7) \cup child(8))))

RECURSIVE OctreeHashMapNode_rangeQueryRecursiveCalls(_, _, _, _, _)

\* the nodes rangeQueryRecursive is called on, from the call on n
OctreeHashMapNode_rangeQueryRecursiveCalls(nodes, order, n, queryMin, queryMax) ==
    LET child(k) == IF k <= Len(order[n])
                    THEN OctreeHashMapNode_rangeQueryRecursiveCalls(nodes, order,
                             Append(n, order[n][k]), queryMin, queryMax)
                    ELSE {}
    IN IF ~OctreeHashMapNode_boxIntersects(nodes[n], queryMin, queryMax) THEN {n}
       ELSE {n}
            \cup (((child(1) \cup child(2)) \cup (child(3) \cup child(4)))
                  \cup ((child(5) \cup child(6)) \cup (child(7) \cup child(8))))

RECURSIVE OctreeHashMapNode_collectNodeBoxes(_, _, _, _)

OctreeHashMapNode_collectNodeBoxes(nodes, order, n, currentLevel) ==
    LET child(k) == IF k <= Len(order[n])
                    THEN OctreeHashMapNode_collectNodeBoxes(nodes, order,
                             Append(n, order[n][k]), currentLevel + 1)
                    ELSE <<>>
    IN << [min |-> nodes[n].min, max |-> nodes[n].max, level |-> currentLevel] >>
       \o (((child(1) \o child(2)) \o (child(3) \o child(4)))
           \o ((child(5) \o child(6)) \o (child(7) \o child(8))))

RECURSIVE OctreeHashMapNode_getStatistics(_, _, _, _)

OctreeHashMapNode_getStatistics(nodes, order, n, currentDepth) ==
    LET own == [ totalNodes |-> 1,
                 leafNodes |-> IF OctreeHashMapNode_isLeaf(nodes, n) THEN 1 ELSE 0,
                 totalPoints |-> Len(nodes[n].points),
                 maxDepth |-> Max2(0, currentDepth) ]
        child(k) == IF k <= Len(order[n])
                    THEN OctreeHashMapNode_getStatistics(nodes, order, Append(n, order[n][k]),
                                                         currentDepth + 1)
                    ELSE ZeroStatistics
        c1 == child(1)
        c2 == child(2)
        c3 == child(3)
        c4 == child(4)
        c5 == child(5)
        c6 == child(6)
        c7 == child(7)
        c8 == child(8)
    IN IF OctreeHashMapNode_isLeaf(nodes, n)
       THEN own
       ELSE MergeStatistics(own, c1, c2, c3, c4, c5, c6, c7, c8)

(***************************************************************************)
(* The program: main.cpp builds the tree by repeated insert                *)
(***************************************************************************)
NoResult == [op |-> "none"]

Init ==
    /\ classicOctree = EmptyTree(RootMin, RootMax)
    /\ hashmapOctree = EmptyTree(RootMin, RootMax)
    /\ hist = <<>>
    /\ result = NoResult

\* the query boxes handed to rangeQuery: [(-1,-1,-1),(1,1,1)], the upper
\* octant of the root, a box touching only the corner (-10,10,.), the whole
\* root box, and a box that holds no input point
Queries ==
    { << <<-32, -32, -32>>, <<32, 32, 32>> >>,
      << <<0, 0, 0>>, <<320, 320, 320>> >>,
      << <<-400, 320, -320>>, <<-320, 400, 0>> >>,
      << <<-320, -320, -320>>, <<320, 320, 320>> >>,
      << <<200, 200, 200>>, <<300, 300, 300>> >> }

RECURSIVE BuildClassic(_)
\* the array-backed tree after the build loop has inserted points
BuildClassic(points) ==
    IF points = <<>> THEN EmptyTree(RootMin, RootMax)
    ELSE LET built == BuildClassic(SubSeq(points, 1, Len(points) - 1))
         IN IF built.overflow THEN built
            ELSE OctreeNode_insert(built, <<>>, points[Len(points)])

RECURSIVE BuildHashMap(_)
\* the map-backed tree after the build loop has inserted points
BuildHashMap(points) ==
    IF points = <<>> THEN EmptyTree(RootMin, RootMax)
    ELSE LET built == BuildHashMap(SubSeq(points, 1, Len(points) - 1))
         IN IF built.overflow THEN built
            ELSE OctreeHashMapNode_insert(built, <<>>, points[Len(points)])

\* one insert call of the build loop, made on both roots; main.cpp builds
\* the tree before it makes the first traversal
Insert(p) ==
    /\ Len(hist) < MaxInserts
    /\ result = NoResult
    /\ ~classicOctree.overflow
    /\ ~hashmapOctree.overflow
    /\ classicOctree' = OctreeNode_insert(classicOctree, <<>>, p)
    /\ hashmapOctree' = OctreeHashMapNode_insert(hashmapOctree, <<>>, p)
    /\ hist' = Append(hist, p)
    /\ result' = NoResult

\* a traversal is made by a live process on the built tree.  Traversals are
\* const member functions: a second one would walk the same tree, so a
\* behaviour makes one.
Live == ~classicOctree.overflow /\ ~hashmapOctree.overflow /\ result = NoResult

CollectAllPoints ==
    /\ Live
    /\ \E order \in IterationOrders(hashmapOctree.nodes) :
          result' = [ op |-> "collectAllPoints",
                      classic |-> OctreeNode_collectAllPoints(classicOctree.nodes, <<>>),
                      hashmap |-> OctreeHashMapNode_collectAllPoints(hashmapOctree.nodes, order, <<>>) ]
    /\ UNCHANGED <<classicOctree, hashmapOctree, hist>>

RangeQuery(queryMin, queryMax) ==
    /\ Live
    /\ \E order \in IterationOrders(hashmapOctree.nodes) :
          result' = [ op |-> "rangeQuery", queryMin |-> queryMin, queryMax |-> queryMax,
                      classic |-> OctreeNode_rangeQuery(classicOctree.nodes, queryMin, queryMax),
                      hashmap |-> OctreeHashMapNode_rangeQuery(hashmapOctree.nodes, order,
                                                               queryMin, queryMax),
                      classicScans |->
                          OctreeNode_rangeQueryScans(classicOctree.nodes, queryMin, queryMax),
                      hashmapScans |->
                          OctreeHashMapNode_rangeQueryRecursiveScans(
                              hashmapOctree.nodes, order, <<>>, queryMin, queryMax),
                      hashmapCalls |->
                          OctreeHashMapNode_rangeQueryRecursiveCalls(
                              hashmapOctree.nodes, order, <<>>, queryMin, queryMax) ]
    /\ UNCHANGED <<classicOctree, hashmapOctree, hist>>

\* exportToVTK starts collectNodeBoxes on the root with currentLevel 0
CollectNodeBoxes ==
    /\ Live
    /\ \E order \in IterationOrders(hashmapOctree.nodes) :
          result' = [ op |-> "collectNodeBoxes",
                      classic |-> OctreeNode_collectNodeBoxes(classicOctree.nodes, <<>>, 0),
                      hashmap |-> OctreeHashMapNode_collectNodeBoxes(hashmapOctree.nodes, order,
                                                                     <<>>, 0) ]
    /\ UNCHANGED <<classicOctree, hashmapOctree, hist>>

GetStatistics ==
    /\ Live
    /\ \E order \in IterationOrders(hashmapOctree.nodes) :
          result' = [ op |-> "getStatistics",
                      classic |-> OctreeNode_getStatistics(classicOctree.nodes, <<>>, 0),
                      hashmap |-> OctreeHashMapNode_getStatistics(hashmapOctree.nodes, order, <<>>, 0) ]
    /\ UNCHANGED <<classicOctree, hashmapOctree, hist>>

Next ==
    \/ \E p \in Inputs : Insert(p)
    \/ CollectAllPoints
    \/ \E q \in Queries : RangeQuery(q[1], q[2])
    \/ GetStatistics
    \/ CollectNodeBoxes

Spec == Init /\ [][Next]_vars

\* the build phase alone: main.cpp makes all its insert calls before the
\* first traversal, and a traversal changes no tree, so the trees that can
\* be built are the trees of this specification
BuildNext == \E p \in Inputs : Insert(p)

BuildSpec == Init /\ [][BuildNext]_vars

(***************************************************************************)
(* Vocabulary of the properties                                            *)
(***************************************************************************)
InRoot(p) ==
    \A a \in 1 .. 3 : RootMin[a] <= p[a] /\ p[a] <= RootMax[a]

\* the points of hist that lie inside the root's closed box, in call order
Accepted == SelectSeq(hist, InRoot)

OutOfBounds == SelectSeq(hist, LAMBDA p : ~InRoot(p))

Returned == ~classicOctree.overflow /\ ~hashmapOctree.overflow

\* the buffer slots of a heap: a walk over all its nodes that follows no
\* child link and asks no isLeaf
BufferSlots(nodes) ==
    UNION { { <<n, k>> : k \in DOMAIN nodes[n].points } : n \in DOMAIN nodes }

\* the multiset of the points of the buffer slots that satisfy keep
StoredBag(nodes, keep(_)) ==
    LET slots == { s \in BufferSlots(nodes) : keep(nodes[s[1]].points[s[2]]) }
    IN [ x \in { nodes[s[1]].points[s[2]] : s \in slots } |->
           Cardinality({ s \in slots : nodes[s[1]].points[s[2]] = x }) ]

Inside(p, lo, hi) == \A a \in 1 .. 3 : lo[a] <= p[a] /\ p[a] <= hi[a]

(***************************************************************************)
(* C1: collectAllPoints on the root returns, in both variants, exactly the *)
(* multiset of the inserted points that lie inside the root's closed box:  *)
(* no in-bounds point is lost or duplicated, no out-of-bounds point        *)
(* appears.  (A traversal is made on a tree whose inserts returned.)       *)
(***************************************************************************)
C1_CollectIsInsertedInBounds ==
    result.op = "collectAllPoints" =>
        /\ BagOf(result.classic) = BagOf(Accepted)
        /\ BagOf(result.hashmap) = BagOf(Accepted)

C1_Witness ==
    /\ result.op = "collectAllPoints"
    /\ Len(Accepted) = 2
    /\ Len(OutOfBounds) = 1
    /\ classicOctree.subdivisions >= 2
    /\ hashmapOctree.subdivisions >= 2
    /\ Len(result.classic) = 2

(***************************************************************************)
(* C2: rangeQuery(queryMin, queryMax) returns, in both variants, exactly   *)
(* the multiset of stored points p with queryMin <= p <= queryMax on all   *)
(* three axes; the pruning of the map variant skips no matching point.     *)
(***************************************************************************)
C2_RangeQueryIsBruteForce ==
    result.op = "rangeQuery" =>
        LET matches(nodes) ==
                StoredBag(nodes, LAMBDA p : Inside(p, result.queryMin, result.queryMax))
        IN /\ BagOf(result.classic) = matches(classicOctree.nodes)
           /\ BagOf(result.hashmap) = matches(hashmapOctree.nodes)
           /\ BagOf(result.hashmap) =
                 BagOf(SelectSeq(Accepted, LAMBDA p : Inside(p, result.queryMin, result.queryMax)))
           \* the scenario: {(0,0,0), (5,5,5), (-0.5,-0.5,-0.5)} queried with
           \* [(-1,-1,-1),(1,1,1)] gives {(0,0,0), (-0.5,-0.5,-0.5)}
           /\ ( /\ Len(hist) = 3
                /\ Range(hist) = { <<0, 0, 0>>, <<160, 160, 160>>, <<-16, -16, -16>> }
                /\ result.queryMin = <<-32, -32, -32>>
                /\ result.queryMax = <<32, 32, 32>> )
              => /\ BagOf(result.classic) = BagOf(<< <<0, 0, 0>>, <<-16, -16, -16>> >>)
                 /\ BagOf(result.hashmap) = BagOf(<< <<0, 0, 0>>, <<-16, -16, -16>> >>)

\* a query that prunes a subtree holding a point and returns a point of a
\* node whose box only touches the query box
C2_Witness ==
    /\ result.op = "rangeQuery"
    /\ Len(Accepted) = 3
    /\ result.hashmap # <<>>
    /\ \E n \in DOMAIN hashmapOctree.nodes :
          /\ hashmapOctree.nodes[n].points # <<>>
          /\ ~OctreeHashMapNode_boxIntersects(hashmapOctree.nodes[n],
                                              result.queryMin, result.queryMax)
    /\ \E n \in DOMAIN hashmapOctree.nodes :
          /\ hashmapOctree.nodes[n].points # <<>>
          /\ hashmapOctree.nodes[n].max = result.queryMin
          /\ hashmapOctree.nodes[n].points[1] \in Range(result.hashmap)

(***************************************************************************)
(* C3: every insert call returns: the chain insert -> subdivide -> child   *)
(* insert -> subdivide always ends, also for a point equal to one already  *)
(* stored.                                                                 *)
(***************************************************************************)
C3_InsertReturns == Returned

\* the recursion is cut only where it is unbounded: on a buffer of equal
\* points, which every subdivide hands over whole to one child
OverflowOnlyOnEqualPoints ==
    ~Returned => \E i, j \in DOMAIN Accepted : i < j /\ Accepted[i] = Accepted[j]

(***************************************************************************)
(* C4: after every insert the two variants hold the same logical           *)
(* partition: the same set of pairs (leaf box, multiset of the points      *)
(* buffered in the leaf) over the leaves with a non-empty buffer.          *)
(***************************************************************************)
LeafPartition(nodes, leaves) ==
    { << nodes[n].min, nodes[n].max, BagOf(nodes[n].points) >> :
        n \in { m \in leaves : nodes[m].points # <<>> } }

ClassicLeaves == { n \in DOMAIN classicOctree.nodes : OctreeNode_isLeaf(classicOctree.nodes, n) }

HashMapLeaves ==
    { n \in DOMAIN hashmapOctree.nodes : OctreeHashMapNode_isLeaf(hashmapOctree.nodes, n) }

C4_SamePartition ==
    Returned =>
        LeafPartition(classicOctree.nodes, ClassicLeaves)
            = LeafPartition(hashmapOctree.nodes, HashMapLeaves)

C4_Witness ==
    /\ Returned
    /\ Len(Accepted) = 3
    /\ classicOctree.subdivisions >= 2
    /\ Cardinality(LeafPartition(hashmapOctree.nodes, HashMapLeaves)) = 3
    /\ Cardinality(DOMAIN classicOctree.nodes) > Cardinality(DOMAIN hashmapOctree.nodes)
    /\ \E p \in Range(hist) : p[3] = 0

(***************************************************************************)
(* C5: for every node of either variant, isLeaf() is true iff no octant of *)
(* the node holds a child, whatever its buffer holds; in the array variant *)
(* no node has slot 0 empty and another slot occupied.                     *)
(***************************************************************************)
C5_IsLeafIffNoChildren ==
    /\ \A n \in DOMAIN classicOctree.nodes :
          OctreeNode_isLeaf(classicOctree.nodes, n)
              <=> (\A i \in Octants : Append(n, i) \notin DOMAIN classicOctree.nodes)
    /\ \A n \in DOMAIN hashmapOctree.nodes :
          OctreeHashMapNode_isLeaf(hashmapOctree.nodes, n)
              <=> (\A i \in Octants : Append(n, i) \notin DOMAIN hashmapOctree.nodes)

C5_Witness ==
    /\ \E n \in DOMAIN classicOctree.nodes :
          /\ ~OctreeNode_isLeaf(classicOctree.nodes, n)
          /\ n # <<>>
          /\ ChildSlots(classicOctree.nodes, n) = Octants
    /\ \E n \in DOMAIN classicOctree.nodes :
          /\ OctreeNode_isLeaf(classicOctree.nodes, n)
          /\ classicOctree.nodes[n].points # <<>>
    /\ \E n \in DOMAIN hashmapOctree.nodes :
          /\ ~OctreeHashMapNode_isLeaf(hashmapOctree.nodes, n)
          /\ 0 \notin ChildSlots(hashmapOctree.nodes, n)

(***************************************************************************)
(* C6: an insert of a point outside the root's closed box returns with a   *)
(* warning and leaves every node's box, children and buffer as they were;  *)
(* the inserts that follow are made on that unchanged tree.  Inserting     *)
(* only (100,100,100) leaves collectAllPoints empty and totalPoints 0.     *)
(***************************************************************************)
OutOfBoundsInsert == hist' # hist /\ ~InRoot(hist'[Len(hist')])

OnlyFarPoint == << <<3200, 3200, 3200>> >>

C6_OutOfBoundsIsDiscarded ==
    [][ /\ OutOfBoundsInsert =>
            /\ classicOctree'.nodes = classicOctree.nodes
            /\ hashmapOctree'.nodes = hashmapOctree.nodes
            /\ ~classicOctree'.overflow /\ ~hashmapOctree'.overflow
            /\ classicOctree'.warnings =
                  Append(classicOctree.warnings, [node |-> <<>>, p |-> hist'[Len(hist')]])
            /\ hashmapOctree'.warnings =
                  Append(hashmapOctree.warnings, [node |-> <<>>, p |-> hist'[Len(hist')]])
        /\ (hist' # hist /\ InRoot(hist'[Len(hist')])) =>
            /\ classicOctree'.warnings = classicOctree.warnings
            /\ hashmapOctree'.warnings = hashmapOctree.warnings
            /\ Returned' => /\ StoredBag(classicOctree'.nodes, LAMBDA p : TRUE) = BagOf(Accepted')
                            /\ StoredBag(hashmapOctree'.nodes, LAMBDA p : TRUE) = BagOf(Accepted')
        /\ (hist' = OnlyFarPoint /\ result'.op = "collectAllPoints") =>
            result'.classic = <<>> /\ result'.hashmap = <<>>
        /\ (hist' = OnlyFarPoint /\ result'.op = "getStatistics") =>
            result'.classic.totalPoints = 0 /\ result'.hashmap.totalPoints = 0
      ]_vars

\* an in-bounds point, then a point outside the box, then an in-bounds point
\* that makes the tree subdivide
C6_Witness ==
    /\ Len(hist) = 3
    /\ InRoot(hist[1]) /\ ~InRoot(hist[2]) /\ InRoot(hist[3])
    /\ Returned
    /\ Len(classicOctree.warnings) = 1
    /\ Len(hashmapOctree.warnings) = 1
    /\ classicOctree.subdivisions >= 1
    /\ hashmapOctree.subdivisions >= 1

(***************************************************************************)
(* C7: totalPoints of getStatistics, started on zeroed counters, is the    *)
(* sum of the buffer sizes over all nodes of the tree and the length of    *)
(* the list collectAllPoints produces, in both variants.                   *)
(***************************************************************************)
C7_TotalPointsIsBufferSum ==
    result.op = "getStatistics" =>
        /\ result.classic.totalPoints = Cardinality(BufferSlots(classicOctree.nodes))
        /\ result.classic.totalPoints
              = Len(OctreeNode_collectAllPoints(classicOctree.nodes, <<>>))
        /\ result.hashmap.totalPoints = Cardinality(BufferSlots(hashmapOctree.nodes))
        /\ \A order \in IterationOrders(hashmapOctree.nodes) :
              result.hashmap.totalPoints
                  = Len(OctreeHashMapNode_collectAllPoints(hashmapOctree.nodes, order, <<>>))

C7_Witness ==
    /\ result.op = "getStatistics"
    /\ result.classic.totalPoints = 3
    /\ result.hashmap.totalPoints = 3
    /\ result.classic.totalNodes > result.hashmap.totalNodes
    /\ result.hashmap.maxDepth >= 2

(***************************************************************************)
(* C8: collectAllPoints is, in both variants, the pre-order walk that      *)
(* appends a node's buffer and then the contribution of each child in      *)
(* ascending octant index, so the returned sequence is determined by the   *)
(* tree alone, whatever the iteration order of the map's container.        *)
(***************************************************************************)
Ascending(S) ==
    [ i \in 1 .. Cardinality(S) |-> CHOOSE x \in S : Cardinality({ y \in S : y < x }) = i - 1 ]

\* the pre-order walk of a tree with the children taken by ascending octant
PreOrderAscending(nodes) ==
    OctreeHashMapNode_collectAllPoints(
        nodes, [ n \in DOMAIN nodes |-> Ascending(ChildSlots(nodes, n)) ], <<>>)

C8_CollectInAscendingOctantOrder ==
    result.op = "collectAllPoints" =>
        /\ result.classic = PreOrderAscending(classicOctree.nodes)
        /\ result.hashmap = PreOrderAscending(hashmapOctree.nodes)

(***************************************************************************)
(* C9: inserting (1,1,1), (2,2,2), (3,3,3) in that order into the box      *)
(* [(-10,-10,-10),(10,10,10)].                                             *)
(***************************************************************************)
P1 == <<32, 32, 32>>

P2 == <<64, 64, 64>>

P3 == <<96, 96, 96>>

Children(nodes) == DOMAIN nodes \ { <<>> }

\* the claim as made: exactly one subdivision, during the second insertion,
\* after which the array variant has 8 children and the map variant 1 or 2;
\* then getStatistics reports totalPoints = 3 and leafNodes >= 1
C9_ExactlyOneSubdivision ==
    /\ hist = <<P1>> =>
          classicOctree.subdivisions = 0 /\ hashmapOctree.subdivisions = 0
    /\ hist = <<P1, P2>> =>
          /\ classicOctree.subdivisions = 1 /\ hashmapOctree.subdivisions = 1
          /\ Cardinality(Children(classicOctree.nodes)) = 8
          /\ Cardinality(Children(hashmapOctree.nodes)) \in {1, 2}
    /\ hist = <<P1, P2, P3>> =>
          /\ classicOctree.subdivisions = 1 /\ hashmapOctree.subdivisions = 1
          /\ result.op = "getStatistics" =>
                /\ result.classic.totalPoints = 3 /\ result.classic.leafNodes >= 1
                /\ result.hashmap.totalPoints = 3 /\ result.hashmap.leafNodes >= 1

\* C9 as amended: the second insertion triggers four nested subdivisions
\* (of the root and of the boxes [0,10]^3, [0,5]^3, [0,2.5]^3, whose
\* midplanes 1.25 separate the two points), after which the array variant
\* has 32 children and the map variant 5; the first and the third insertion
\* trigger none; then getStatistics reports totalPoints = 3, leafNodes >= 1
C9_FourNestedSubdivisions ==
    /\ hist = <<P1>> =>
          classicOctree.subdivisions = 0 /\ hashmapOctree.subdivisions = 0
    /\ hist = <<P1, P2>> =>
          /\ classicOctree.subdivisions = 4 /\ hashmapOctree.subdivisions = 4
          /\ Cardinality(Children(classicOctree.nodes)) = 32
          /\ Cardinality(Children(hashmapOctree.nodes)) = 5
          /\ \A n \in { <<>>, <<7>>, <<7, 0>>, <<7, 0, 0>> } :
                /\ ChildSlots(classicOctree.nodes, n) = Octants
                /\ classicOctree.nodes[n].points = <<>>
                /\ hashmapOctree.nodes[n].points = <<>>
          /\ ChildSlots(hashmapOctree.nodes, <<7, 0, 0>>) = {0, 7}
          /\ hashmapOctree.nodes[<<7, 0, 0>>].max = <<80, 80, 80>>
    /\ hist = <<P1, P2, P3>> =>
          /\ classicOctree.subdivisions = 4 /\ hashmapOctree.subdivisions = 4
          /\ Cardinality(Children(classicOctree.nodes)) = 32
          /\ Cardinality(Children(hashmapOctree.nodes)) = 6
          /\ result.op = "getStatistics" =>
                /\ result.classic.totalPoints = 3 /\ result.classic.leafNodes >= 1
                /\ result.hashmap.totalPoints = 3 /\ result.hashmap.leafNodes >= 1

C9_Witness ==
    /\ hist = <<P1, P2, P3>>
    /\ result.op = "getStatistics"
    /\ result.hashmap.leafNodes = 3
    /\ result.classic.maxDepth = 4

(***************************************************************************)
(* C10: whether the order of the inserts changes the shape of the tree:    *)
(* the set of the node boxes with the points buffered in each.             *)
(***************************************************************************)
Shape(h) ==
    { << h.nodes[n].min, h.nodes[n].max, BagOf(h.nodes[n].points) >> : n \in DOMAIN h.nodes }

Reorderings(s) == { [ i \in DOMAIN s |-> s[f[i]] ] : f \in KeyOrders(DOMAIN s) }

\* the sequences of distinct in-bounds input points, up to MaxInserts long
DistinctInBounds ==
    UNION { { s \in [1 .. k -> { p \in Inputs : InRoot(p) }] :
                \A i, j \in 1 .. k : s[i] = s[j] => i = j } : k \in 0 .. MaxInserts }

\* the claim as made: some set of in-bounds points has two insertion orders
\* whose trees differ in shape.  It speaks of the insert operation, not of a
\* state, and is evaluated where the build starts.
C10_OrderChangesShape ==
    hist = <<>> =>
        \E s \in DistinctInBounds : \E t \in Reorderings(s) :
            \/ Shape(BuildClassic(s)) # Shape(BuildClassic(t))
            \/ Shape(BuildHashMap(s)) # Shape(BuildHashMap(t))

\* C10 as amended: the shape is order-invariant: every insertion order of
\* the in-bounds points inserted so far builds the tree that was built
C10_ShapeIsOrderInvariant ==
    (Returned /\ result = NoResult) =>
        LET classicShape == Shape(classicOctree)
            hashmapShape == Shape(hashmapOctree)
        IN \A t \in Reorderings(Accepted) :
              LET classic == BuildClassic(t)
                  hashmap == BuildHashMap(t)
              IN /\ ~classic.overflow
                 /\ ~hashmap.overflow
                 /\ Shape(classic) = classicShape
                 /\ Shape(hashmap) = hashmapShape

\* three in-bounds points whose inserts subdivide at different calls in
\* different orders
C10_Witness ==
    /\ Returned
    /\ result = NoResult
    /\ Len(Accepted) = 3
    /\ hashmapOctree.subdivisions >= 2
    /\ \E t \in Reorderings(Accepted) :
          BuildHashMap(SubSeq(t, 1, 2)).subdivisions
              # BuildHashMap(SubSeq(Accepted, 1, 2)).subdivisions

(***************************************************************************)
(* C11: rangeQuery prunes in both variants: it scans the buffer of no node *)
(* whose box fails the closed-interval intersection test with the query    *)
(* box and visits no descendant of such a node.                            *)
(***************************************************************************)
ClosedIntersects(node, lo, hi) ==
    \A a \in 1 .. 3 : node.max[a] >= lo[a] /\ node.min[a] <= hi[a]

\* the proper ancestors of node n
Ancestors(n) == { SubSeq(n, 1, k) : k \in 0 .. Len(n) - 1 }

C11_RangeQueryPrunes ==
    result.op = "rangeQuery" =>
        /\ \A n \in result.classicScans : \A m \in Ancestors(n) \cup {n} :
              ClosedIntersects(classicOctree.nodes[m], result.queryMin, result.queryMax)
        /\ \A n \in result.hashmapScans : \A m \in Ancestors(n) \cup {n} :
              ClosedIntersects(hashmapOctree.nodes[m], result.queryMin, result.queryMax)
        /\ \A n \in result.hashmapCalls : \A m \in Ancestors(n) :
              ClosedIntersects(hashmapOctree.nodes[m], result.queryMin, result.queryMax)

\* the half of C11 the map variant keeps
C11_HashMapPrunes ==
    result.op = "rangeQuery" =>
        /\ \A n \in result.hashmapScans : \A m \in Ancestors(n) \cup {n} :
              ClosedIntersects(hashmapOctree.nodes[m], result.queryMin, result.queryMax)
        /\ \A n \in result.hashmapCalls : \A m \in Ancestors(n) :
              ClosedIntersects(hashmapOctree.nodes[m], result.queryMin, result.queryMax)
        /\ result.hashmapScans \subseteq result.hashmapCalls

(***************************************************************************)
(* C12: collectNodeBoxes emits one (min, max, depth) entry per existing    *)
(* node, the root's first with depth 0, every child's after its parent's   *)
(* with the parent's depth + 1; the number of entries is totalNodes of     *)
(* getStatistics and the largest depth is its maxDepth.                    *)
(***************************************************************************)
EntryOf(nodes, n) == [min |-> nodes[n].min, max |-> nodes[n].max, level |-> Len(n)]

PositionOf(entries, e) == CHOOSE i \in DOMAIN entries : entries[i] = e

OneEntryPerNodeInPreOrder(nodes, entries) ==
    /\ Len(entries) = Cardinality(DOMAIN nodes)
    /\ Range(entries) = { EntryOf(nodes, n) : n \in DOMAIN nodes }
    /\ entries[1] = [min |-> nodes[<<>>].min, max |-> nodes[<<>>].max, level |-> 0]
    /\ \A n \in DOMAIN nodes \ { <<>> } :
          LET parent == SubSeq(n, 1, Len(n) - 1)
              ownEntry == entries[PositionOf(entries, EntryOf(nodes, n))]
              parentEntry == entries[PositionOf(entries, EntryOf(nodes, parent))]
          IN /\ PositionOf(entries, EntryOf(nodes, n))
                  > PositionOf(entries, EntryOf(nodes, parent))
             /\ ownEntry.level = parentEntry.level + 1

C12_OneBoxPerNodeInPreOrder ==
    result.op = "collectNodeBoxes" =>
        /\ OneEntryPerNodeInPreOrder(classicOctree.nodes, result.classic)
        /\ OneEntryPerNodeInPreOrder(hashmapOctree.nodes, result.hashmap)
        /\ LET statistics == OctreeNode_getStatistics(classicOctree.nodes, <<>>, 0)
           IN /\ Len(result.classic) = statistics.totalNodes
              /\ MaxOf({ e.level : e \in Range(result.classic) }) = statistics.maxDepth
        /\ \A order \in IterationOrders(hashmapOctree.nodes) :
              LET statistics ==
                      OctreeHashMapNode_getStatistics(hashmapOctree.nodes, order, <<>>, 0)
              IN /\ Len(result.hashmap) = statistics.totalNodes
                 /\ MaxOf({ e.level : e \in Range(result.hashmap) }) = statistics.maxDepth

\* a walk over trees of depth 2 or more in which the map lists a higher
\* octant before a lower one
C12_Witness ==
    /\ result.op = "collectNodeBoxes"
    /\ Len(result.classic) >= 17
    /\ Len(result.hashmap) >= 4
    /\ \E i \in DOMAIN result.classic : result.classic[i].level >= 2
    /\ \E i \in DOMAIN result.hashmap : result.hashmap[i].level >= 2
    /\ \E n \in DOMAIN hashmapOctree.nodes : \E i, j \in ChildSlots(hashmapOctree.nodes, n) :
          /\ i < j
          /\ PositionOf(result.hashmap, EntryOf(hashmapOctree.nodes, Append(n, j)))
                < PositionOf(result.hashmap, EntryOf(hashmapOctree.nodes, Append(n, i)))

(***************************************************************************)
(* C13: for every node box and every point p inside that closed box, the   *)
(* box calculateChildBounds gives for octant getOctant(p) contains p, also *)
(* when p lies on a midpoint plane; so an insert made on a child never     *)
(* takes the out-of-bounds branch: a point is rejected at the root only.   *)
(***************************************************************************)
\* the input points and the 27 points of a box that have each coordinate on
\* a face or on the midpoint plane
TestPoints(node) ==
    Inputs \cup
    { <<x, y, z>> : x \in { node.min[1], (node.min[1] + node.max[1]) \div 2, node.max[1] },
                    y \in { node.min[2], (node.min[2] + node.max[2]) \div 2, node.max[2] },
                    z \in { node.min[3], (node.min[3] + node.max[3]) \div 2, node.max[3] } }

\* the nodes whose midpoints are whole numbers of the coordinate unit
Divisible(nodes) == { n \in DOMAIN nodes : Len(n) < MaxDepth }

C13_ChildBoxContainsPoint ==
    \* a traversal changes no tree: the trees are examined as the build leaves them
    result = NoResult =>
        /\ \A n \in Divisible(classicOctree.nodes) :
              LET node == classicOctree.nodes[n]
              IN \A p \in TestPoints(node) :
                    OctreeNode_contains(node, p) =>
                        OctreeNode_contains(
                            OctreeNode_calculateChildBounds(node, OctreeNode_getOctant(node, p)), p)
        /\ \A n \in Divisible(hashmapOctree.nodes) :
              LET node == hashmapOctree.nodes[n]
              IN \A p \in TestPoints(node) :
                    OctreeHashMapNode_contains(node, p) =>
                        OctreeHashMapNode_contains(
                            OctreeHashMapNode_calculateChildBounds(
                                node, OctreeHashMapNode_getOctant(node, p)), p)
        /\ \A i \in DOMAIN classicOctree.warnings : classicOctree.warnings[i].node = <<>>
        /\ \A i \in DOMAIN hashmapOctree.warnings : hashmapOctree.warnings[i].node = <<>>

\* (0,0,0), on the three midpoint planes of the root, has been moved down
\* by subdivide into a lower octant, and a point was rejected at the root
C13_Witness ==
    /\ Returned
    /\ Len(classicOctree.warnings) = 1
    /\ Len(hashmapOctree.warnings) = 1
    /\ \E n \in DOMAIN classicOctree.nodes \ { <<>> } :
          /\ classicOctree.nodes[n].points = << <<0, 0, 0>> >>
          /\ classicOctree.nodes[n].max = <<0, 0, 0>>
    /\ \E n \in DOMAIN hashmapOctree.nodes \ { <<>> } :
          /\ hashmapOctree.nodes[n].points = << <<0, 0, 0>> >>
          /\ hashmapOctree.nodes[n].max = <<0, 0, 0>>

(***************************************************************************)
(* C14: subdivision is a one-time, irreversible step of a node: over every *)
(* insert, a node that exists keeps existing and keeps its box, an         *)
(* internal node stays internal, and subdivide runs on no node twice.      *)
(***************************************************************************)
Internal(nodes, n) == ChildSlots(nodes, n) # {}

\* the nodes that are internal after the step and were not before it
Subdivided(before, after) ==
    { n \in DOMAIN after.nodes :
        /\ Internal(after.nodes, n)
        /\ n \in DOMAIN before.nodes => ~Internal(before.nodes, n) }

\* only subdivide gives a leaf its first child, so a step that runs
\* subdivide as many times as it makes nodes internal runs it once on each
\* of them and on no node that was internal
OneTimeSubdivision(before, after) ==
    /\ \A n \in DOMAIN before.nodes :
          /\ n \in DOMAIN after.nodes
          /\ after.nodes[n].min = before.nodes[n].min
          /\ after.nodes[n].max = before.nodes[n].max
          /\ Internal(before.nodes, n) => Internal(after.nodes, n)
    /\ after.subdivisions - before.subdivisions = Cardinality(Subdivided(before, after))

C14_SubdivisionIsOneTime ==
    [][ hist' # hist =>
            /\ OneTimeSubdivision(classicOctree, classicOctree')
            /\ OneTimeSubdivision(hashmapOctree, hashmapOctree')
      ]_vars

\* the third insert descends through the root, internal since the second
\* insert, and subdivides a node below it
C14_Witness ==
    /\ Returned
    /\ result = NoResult
    /\ Len(hist) = 3
    /\ Len(Accepted) = 3
    /\ Internal(BuildClassic(SubSeq(hist, 1, 2)).nodes, <<>>)
    /\ Internal(BuildHashMap(SubSeq(hist, 1, 2)).nodes, <<>>)
    /\ classicOctree.subdivisions > BuildClassic(SubSeq(hist, 1, 2)).subdivisions
    /\ hashmapOctree.subdivisions > BuildHashMap(SubSeq(hist, 1, 2)).subdivisions

(***************************************************************************)
(* C15: after every completed insert every internal node has an empty      *)
(* buffer and every leaf holds at most 1 point, in both variants.          *)
(***************************************************************************)
PointsSitInLeaves(nodes) ==
    \A n \in DOMAIN nodes :
        /\ Internal(nodes, n) => nodes[n].points = <<>>
        /\ Len(nodes[n].points) <= 1

C15_AtMostOnePointPerLeaf ==
    Returned =>
        /\ PointsSitInLeaves(classicOctree.nodes)
        /\ PointsSitInLeaves(hashmapOctree.nodes)

C15_Witness ==
    /\ Returned
    /\ Len(Accepted) = 3
    /\ Cardinality({ n \in DOMAIN classicOctree.nodes :
                        Len(classicOctree.nodes[n].points) = 1 }) = 3
    /\ Cardinality({ n \in DOMAIN hashmapOctree.nodes :
                        Len(hashmapOctree.nodes[n].points) = 1 }) = 3
    /\ Cardinality({ n \in DOMAIN hashmapOctree.nodes : Internal(hashmapOctree.nodes, n) }) >= 3

(***************************************************************************)
(* C16: in the map variant, after every completed insert, every node other *)
(* than the root has a point stored in its subtree: no empty leaf exists   *)
(* below the root.                                                         *)
(***************************************************************************)
\* the nodes of the subtree of n
Subtree(nodes, n) == { m \in DOMAIN nodes : Len(m) >= Len(n) /\ SubSeq(m, 1, Len(n)) = n }

C16_NoEmptySubtreeBelowRoot ==
    Returned =>
        \A n \in DOMAIN hashmapOctree.nodes \ { <<>> } :
            \E m \in Subtree(hashmapOctree.nodes, n) : hashmapOctree.nodes[m].points # <<>>

\* children made by subdivide and a child made by a later insert into an
\* absent octant of an internal node, next to the array variant's empty leaves
C16_Witness ==
    /\ Returned
    /\ result = NoResult
    /\ Len(hist) = 3
    /\ Len(Accepted) = 3
    /\ Cardinality(DOMAIN hashmapOctree.nodes)
          > Cardinality(DOMAIN BuildHashMap(SubSeq(hist, 1, 2)).nodes)
    /\ hashmapOctree.subdivisions = BuildHashMap(SubSeq(hist, 1, 2)).subdivisions
    /\ hashmapOctree.subdivisions >= 1
    /\ \E n \in DOMAIN classicOctree.nodes \ { <<>> } :
          /\ OctreeNode_isLeaf(classicOctree.nodes, n)
          /\ classicOctree.nodes[n].points = <<>>

====
